---- MODULE Spec2Model ----
(***************************************************************************)
(* Model of heart_rate_server.py: the Heart Rate Measurement payload       *)
(* encoder, the notification scheduler task (send_heart_rates) and the     *)
(* server lifecycle (start_server, main) running on the asyncio event      *)
(* loop.  The BLE server object (BleakServer) is an external collaborator: *)
(* what its constructor, start, stop, notify and services do is a          *)
(* nondeterministic choice of the environment.                             *)
(*                                                                         *)
(* Exception semantics are those of Python 3.8 and later, where            *)
(* asyncio.CancelledError and KeyboardInterrupt derive from BaseException  *)
(* and are therefore not caught by "except Exception".                     *)
(***************************************************************************)
EXTENDS Integers, Sequences, FiniteSets, TLC

\* ---------------------------------------------------------------- bounds
MaxTicks == 3
MaxKeepAlive == 2
MaxInterrupts == 2
EncodeSlack == 2

\* ------------------------------------------------------ program constants
HEART_RATE_SERVICE_UUID == "0000180d-0000-1000-8000-00805f9b34fb"
HEART_RATE_MEASUREMENT_UUID == "00002a37-0000-1000-8000-00805f9b34fb"
OTHER_SERVICE_UUID == "0000180f-0000-1000-8000-00805f9b34fb"
OTHER_CHARACTERISTIC_UUID == "00002a38-0000-1000-8000-00805f9b34fb"
UINT8_MAX == 255
RANDINT_LOW == 80
RANDINT_HIGH == 120
FLAGS_UINT8_NO_CONTACT == 1
SLEEP_INTERVAL == 15

VARIABLES
    SERVER_AVAILABLE,  \* module-level flag, fixed at import time
    is_running,        \* HeartRateServer.is_running
    mainpc,            \* position of main()/start_server
    pendingExc,        \* exception in flight while start_server's finally runs
    serverState,       \* BleakServer object: none, created, started, stopped
    services,          \* server.services as the library reports it
    stopCalled,        \* server.stop() has been called
    taskpc,            \* position of the send_heart_rates task
    taskCancel,        \* notification_task.cancel(): none, requested, delivered
    tasksCreated,      \* number of asyncio.create_task calls
    ticks,             \* number of samples produced (loop iterations begun)
    heart_rate,        \* the local heart_rate of the current iteration
    notifyLog,         \* outcome of every server.notify call, in call order
    lastCall,          \* arguments of the latest server.notify call
    sleeps,            \* number of asyncio.sleep(15) calls of the task
    startFailure,      \* why start_server refused/failed to start, or "none"
    diagnostic,        \* what start_server printed about a failure
    exitCode,          \* outcome of the process
    interrupts,        \* external interrupts delivered so far
    keepAliveIters,    \* completed iterations of the keep-alive loop
    encIn,             \* argument of a direct create_heart_rate_data call
    encOut             \* its result

vars == <<SERVER_AVAILABLE, is_running, mainpc, pendingExc, serverState, services,
          stopCalled, taskpc, taskCancel, tasksCreated, ticks, heart_rate,
          notifyLog, lastCall, sleeps, startFailure, diagnostic, exitCode,
          interrupts, keepAliveIters, encIn, encOut>>

lifecycleVars == <<SERVER_AVAILABLE, is_running, mainpc, pendingExc, serverState,
                   services, stopCalled, startFailure, diagnostic, exitCode,
                   interrupts, keepAliveIters>>
taskVars == <<taskpc, taskCancel, tasksCreated, ticks, heart_rate, notifyLog,
              lastCall, sleeps>>
encVars == <<encIn, encOut>>

\* ------------------------------------------------------------- the encoder
\* struct.error raised instead of a byte string: a value that is no byte string
StructError == <<-1>>
NoCall == [handle |-> 0, data |-> <<>>, tick |-> 0]
NoChar == [uuid |-> "None", handle |-> 0]

\* struct.pack format code 'B': one unsigned byte, struct.error when out of range
pack_B(v) == IF v \in 0..UINT8_MAX THEN <<v>> ELSE StructError

\* struct.pack('<BB', a, b)
pack_BB(a, b) ==
    IF pack_B(a) = StructError \/ pack_B(b) = StructError
    THEN StructError
    ELSE pack_B(a) \o pack_B(b)

create_heart_rate_data_flags6(bpm) == pack_BB(6, bpm)

create_heart_rate_data_signed(bpm) ==
    IF bpm \in 0..UINT8_MAX
    THEN <<FLAGS_UINT8_NO_CONTACT, IF bpm > 127 THEN bpm - 128 ELSE bpm>>
    ELSE StructError

create_heart_rate_data(bpm) == pack_BB(FLAGS_UINT8_NO_CONTACT, bpm)

\* byte 1 of a payload (Python index 1 is sequence index 2)
decode_bpm(data) == data[2]

\* ------------------------------------------------ the characteristic lookup
RECURSIVE find_char(_)
find_char(chars) ==
    IF chars = <<>> THEN NoChar
    ELSE IF Head(chars).uuid = HEART_RATE_MEASUREMENT_UUID THEN Head(chars)
    ELSE find_char(Tail(chars))

\* a lookup that takes the characteristic from any service (used to test the
\* claim about ticks in which the characteristic is not found)
RECURSIVE find_hr_measurement_char_any_service(_)
find_hr_measurement_char_any_service(svcs) ==
    IF svcs = <<>> THEN NoChar
    ELSE IF find_char(Head(svcs).characteristics) # NoChar
         THEN find_char(Head(svcs).characteristics)
    ELSE find_hr_measurement_char_any_service(Tail(svcs))

\* the nested for/break loops: the first service with the Heart Rate Service
\* UUID ends the search, whether or not it holds the characteristic
RECURSIVE find_hr_measurement_char(_)
find_hr_measurement_char(svcs) ==
    IF svcs = <<>> THEN NoChar
    ELSE IF Head(svcs).uuid = HEART_RATE_SERVICE_UUID
         THEN find_char(Head(svcs).characteristics)
    ELSE find_hr_measurement_char(Tail(svcs))

\* what server.services may hold once the server object exists
ServiceConfigs ==
    { <<[uuid |-> HEART_RATE_SERVICE_UUID,
         characteristics |-> <<[uuid |-> HEART_RATE_MEASUREMENT_UUID, handle |-> 1]>>]>>,
      <<[uuid |-> OTHER_SERVICE_UUID,
         characteristics |-> <<[uuid |-> OTHER_CHARACTERISTIC_UUID, handle |-> 1]>>],
        [uuid |-> HEART_RATE_SERVICE_UUID,
         characteristics |-> <<[uuid |-> OTHER_CHARACTERISTIC_UUID, handle |-> 2],
                               [uuid |-> HEART_RATE_MEASUREMENT_UUID, handle |-> 3]>>]>>,
      <<[uuid |-> HEART_RATE_SERVICE_UUID,
         characteristics |-> <<[uuid |-> OTHER_CHARACTERISTIC_UUID, handle |-> 1]>>]>>,
      <<[uuid |-> OTHER_SERVICE_UUID,
         characteristics |-> <<[uuid |-> HEART_RATE_MEASUREMENT_UUID, handle |-> 1]>>]>>,
      <<>> }

\* random.randint(80, 120)
randint_80_120_wide == RANDINT_LOW..(RANDINT_HIGH + 1)
randint_80_120 == RANDINT_LOW..RANDINT_HIGH

InFlight == Cardinality({i \in DOMAIN notifyLog : notifyLog[i] = "pending"})

\* ------------------------------------------------------------------ Init
Init ==
    /\ SERVER_AVAILABLE \in BOOLEAN
    /\ is_running = TRUE
    /\ mainpc = "main"
    /\ pendingExc = "none"
    /\ serverState = "none"
    /\ services = <<>>
    /\ stopCalled = FALSE
    /\ taskpc = "none"
    /\ taskCancel = "none"
    /\ tasksCreated = 0
    /\ ticks = 0
    /\ heart_rate = 0
    /\ notifyLog = <<>>
    /\ lastCall = NoCall
    /\ sleeps = 0
    /\ startFailure = "none"
    /\ diagnostic = "none"
    /\ exitCode = "none"
    /\ interrupts = 0
    /\ keepAliveIters = 0
    /\ encIn = 0
    /\ encOut = <<>>

\* the inputs of a direct call of the encoder: every byte value and, on both
\* sides, a few values struct.pack rejects
EncodeInputs == (0 - EncodeSlack)..(UINT8_MAX + EncodeSlack)

InitEncode ==
    /\ SERVER_AVAILABLE = FALSE
    /\ is_running = TRUE
    /\ mainpc = "main"
    /\ pendingExc = "none"
    /\ serverState = "none"
    /\ services = <<>>
    /\ stopCalled = FALSE
    /\ taskpc = "none"
    /\ taskCancel = "none"
    /\ tasksCreated = 0
    /\ ticks = 0
    /\ heart_rate = 0
    /\ notifyLog = <<>>
    /\ lastCall = NoCall
    /\ sleeps = 0
    /\ startFailure = "none"
    /\ diagnostic = "none"
    /\ exitCode = "none"
    /\ interrupts = 0
    /\ keepAliveIters = 0
    /\ encIn \in EncodeInputs
    /\ encOut = <<>>

\* ---------------------------------------------------- start_server / main

\* the task is done once it was cancelled or returned
TaskDone == taskpc \in {"cancelled", "returned"}

\* notification_task.cancel(): a request, unless the task is already done
task_cancel == IF TaskDone THEN taskCancel ELSE "requested"

\* lines 77-81: no server support on this platform: print and return
start_server_unavailable_no_return ==
    /\ mainpc = "main"
    /\ ~SERVER_AVAILABLE
    /\ diagnostic' = "not_available"
    /\ startFailure' = "unavailable"
    /\ \E cfg \in ServiceConfigs : services' = cfg
    /\ serverState' = "created"
    /\ mainpc' = "await_start"
    /\ UNCHANGED <<SERVER_AVAILABLE, is_running, pendingExc, stopCalled, exitCode,
                   interrupts, keepAliveIters>>
    /\ UNCHANGED taskVars
    /\ UNCHANGED encVars

start_server_unavailable ==
    /\ mainpc = "main"
    /\ ~SERVER_AVAILABLE
    /\ diagnostic' = "not_available"
    /\ startFailure' = "unavailable"
    /\ mainpc' = "returned"
    /\ UNCHANGED <<SERVER_AVAILABLE, is_running, pendingExc, serverState, services,
                   stopCalled, exitCode, interrupts, keepAliveIters>>
    /\ UNCHANGED taskVars
    /\ UNCHANGED encVars

\* lines 91-102 and 123-126: BleakServer(...) either raises, which the outer
\* handler reports, or yields the server, whose start() is then awaited
create_server ==
    /\ mainpc = "main"
    /\ SERVER_AVAILABLE
    /\ \/ /\ startFailure' = "constructor_raised"
          /\ diagnostic' = "failed_to_start"
          /\ mainpc' = "returned"
          /\ UNCHANGED <<serverState, services>>
       \/ /\ \E cfg \in ServiceConfigs : services' = cfg
          /\ serverState' = "created"
          /\ mainpc' = "await_start"
          /\ UNCHANGED <<startFailure, diagnostic>>
    /\ UNCHANGED <<SERVER_AVAILABLE, is_running, pendingExc, stopCalled, exitCode,
                   interrupts, keepAliveIters>>
    /\ UNCHANGED taskVars
    /\ UNCHANGED encVars

\* lines 102-111: start() returned: create the notification task and enter
\* the keep-alive loop (or, were is_running false, its finally clause)
server_start_returns ==
    /\ mainpc = "await_start"
    /\ serverState' = "started"
    /\ tasksCreated' = tasksCreated + 1
    /\ taskpc' = "created"
    /\ IF is_running
       THEN mainpc' = "keepalive" /\ UNCHANGED taskCancel
       ELSE mainpc' = "await_task" /\ taskCancel' = "requested"
    /\ UNCHANGED <<SERVER_AVAILABLE, is_running, pendingExc, services, stopCalled,
                   startFailure, diagnostic, exitCode, interrupts, keepAliveIters>>
    /\ UNCHANGED <<ticks, heart_rate, notifyLog, lastCall, sleeps>>
    /\ UNCHANGED encVars

\* lines 102 and 123-126: start() raised: reported by the outer handler; the
\* server object exists and server.stop() is not called
server_start_raises ==
    /\ mainpc = "await_start"
    /\ startFailure' = "start_raised"
    /\ diagnostic' = "failed_to_start"
    /\ mainpc' = "returned"
    /\ UNCHANGED <<SERVER_AVAILABLE, is_running, pendingExc, serverState, services,
                   stopCalled, exitCode, interrupts, keepAliveIters>>
    /\ UNCHANGED taskVars
    /\ UNCHANGED encVars

\* lines 110-111: asyncio.sleep(1) returned and the loop condition is tested
keep_alive_wake ==
    /\ mainpc = "keepalive"
    /\ keepAliveIters < MaxKeepAlive
    /\ keepAliveIters' = keepAliveIters + 1
    /\ IF is_running
       THEN UNCHANGED <<mainpc, taskCancel>>
       ELSE mainpc' = "await_task" /\ taskCancel' = task_cancel
    /\ UNCHANGED <<SERVER_AVAILABLE, is_running, pendingExc, serverState, services,
                   stopCalled, startFailure, diagnostic, exitCode, interrupts>>
    /\ UNCHANGED <<taskpc, tasksCreated, ticks, heart_rate, notifyLog, lastCall, sleeps>>
    /\ UNCHANGED encVars

\* an interrupt while start() is awaited: CancelledError is raised at line 102,
\* no handler of start_server catches it
interrupt_await_start ==
    /\ mainpc = "await_start"
    /\ interrupts < MaxInterrupts
    /\ interrupts' = interrupts + 1
    /\ pendingExc' = "CancelledError"
    /\ mainpc' = "raised"
    /\ UNCHANGED <<SERVER_AVAILABLE, is_running, serverState, services, stopCalled,
                   startFailure, diagnostic, exitCode, keepAliveIters>>
    /\ UNCHANGED taskVars
    /\ UNCHANGED encVars

\* an interrupt handler that clears is_running (used to test the claim that
\* no operation clears it)
interrupt_keep_alive_clears_flag ==
    /\ mainpc = "keepalive"
    /\ interrupts < MaxInterrupts
    /\ interrupts' = interrupts + 1
    /\ is_running' = FALSE
    /\ pendingExc' = "none"
    /\ taskCancel' = task_cancel
    /\ mainpc' = "await_task"
    /\ UNCHANGED <<SERVER_AVAILABLE, serverState, services, stopCalled,
                   startFailure, diagnostic, exitCode, keepAliveIters>>
    /\ UNCHANGED <<taskpc, tasksCreated, ticks, heart_rate, notifyLog, lastCall, sleeps>>
    /\ UNCHANGED encVars

\* lines 109-115: an interrupt in the keep-alive loop, as KeyboardInterrupt
\* (caught at line 112) or as CancelledError (not caught); either way the
\* finally clause cancels the task and awaits it
interrupt_keep_alive ==
    /\ mainpc = "keepalive"
    /\ interrupts < MaxInterrupts
    /\ interrupts' = interrupts + 1
    /\ \E kind \in {"KeyboardInterrupt", "CancelledError"} :
          pendingExc' = IF kind = "KeyboardInterrupt" THEN "none" ELSE kind
    /\ taskCancel' = task_cancel
    /\ mainpc' = "await_task"
    /\ UNCHANGED <<SERVER_AVAILABLE, is_running, serverState, services, stopCalled,
                   startFailure, diagnostic, exitCode, keepAliveIters>>
    /\ UNCHANGED <<taskpc, tasksCreated, ticks, heart_rate, notifyLog, lastCall, sleeps>>
    /\ UNCHANGED encVars

\* lines 116-119: an interrupt while the task is awaited: the CancelledError
\* surfaces at line 117 once the task is done and line 118 swallows it
interrupt_await_task ==
    /\ mainpc = "await_task"
    /\ interrupts < MaxInterrupts
    /\ interrupts' = interrupts + 1
    /\ UNCHANGED <<SERVER_AVAILABLE, is_running, mainpc, pendingExc, serverState,
                   services, stopCalled, startFailure, diagnostic, exitCode,
                   keepAliveIters>>
    /\ UNCHANGED taskVars
    /\ UNCHANGED encVars

\* line 120: an interrupt while stop() is awaited: CancelledError leaves
\* start_server
interrupt_await_stop ==
    /\ mainpc = "await_stop"
    /\ interrupts < MaxInterrupts
    /\ interrupts' = interrupts + 1
    /\ pendingExc' = "CancelledError"
    /\ mainpc' = "raised"
    /\ UNCHANGED <<SERVER_AVAILABLE, is_running, serverState, services, stopCalled,
                   startFailure, diagnostic, exitCode, keepAliveIters>>
    /\ UNCHANGED taskVars
    /\ UNCHANGED encVars

\* a finally clause that calls server.stop() without awaiting the task (used
\* to test the claim about the order of task termination and stop)
await_task_done_no_wait ==
    /\ mainpc = "await_task"
    /\ stopCalled' = TRUE
    /\ mainpc' = "await_stop"
    /\ UNCHANGED <<SERVER_AVAILABLE, is_running, pendingExc, serverState, services,
                   startFailure, diagnostic, exitCode, interrupts, keepAliveIters>>
    /\ UNCHANGED taskVars
    /\ UNCHANGED encVars

\* lines 116-120: the awaited task is done; server.stop() is called
await_task_done ==
    /\ mainpc = "await_task"
    /\ TaskDone
    /\ stopCalled' = TRUE
    /\ mainpc' = "await_stop"
    /\ UNCHANGED <<SERVER_AVAILABLE, is_running, pendingExc, serverState, services,
                   startFailure, diagnostic, exitCode, interrupts, keepAliveIters>>
    /\ UNCHANGED taskVars
    /\ UNCHANGED encVars

\* lines 120-121: stop() returned; an exception that entered the finally
\* clause resumes, and no handler of start_server catches CancelledError
server_stop_returns ==
    /\ mainpc = "await_stop"
    /\ serverState' = "stopped"
    /\ mainpc' = IF pendingExc = "none" THEN "returned" ELSE "raised"
    /\ UNCHANGED <<SERVER_AVAILABLE, is_running, pendingExc, services, stopCalled,
                   startFailure, diagnostic, exitCode, interrupts, keepAliveIters>>
    /\ UNCHANGED taskVars
    /\ UNCHANGED encVars

\* lines 120 and 123-126: stop() raised: the outer handler reports it
server_stop_raises ==
    /\ mainpc = "await_stop"
    /\ pendingExc' = "none"
    /\ diagnostic' = "failed_to_start"
    /\ mainpc' = "returned"
    /\ UNCHANGED <<SERVER_AVAILABLE, is_running, serverState, services, stopCalled,
                   startFailure, exitCode, interrupts, keepAliveIters>>
    /\ UNCHANGED taskVars
    /\ UNCHANGED encVars

\* lines 141-151: main() ends as start_server ended; asyncio.run returns, and
\* the process exits 0, or re-raises, and the process exits non-zero
main_exit ==
    /\ mainpc \in {"returned", "raised"}
    /\ exitCode = "none"
    /\ exitCode' = IF mainpc = "returned" THEN "success" ELSE "failure"
    /\ UNCHANGED <<SERVER_AVAILABLE, is_running, mainpc, pendingExc, serverState,
                   services, stopCalled, startFailure, diagnostic, interrupts,
                   keepAliveIters>>
    /\ UNCHANGED taskVars
    /\ UNCHANGED encVars

\* ------------------------------------------------------- send_heart_rates

SetLast(log, v) == [log EXCEPT ![Len(log)] = v]

\* lines 44-66 and 68-73 (fire-and-forget variant of line 66, used to test
\* the claims about overlap)
send_heart_rates_tick_no_await ==
    /\ taskpc \in {"created", "sleep"}
    /\ taskCancel # "requested"
    /\ ticks < MaxTicks
    /\ is_running
    /\ \E hr \in randint_80_120 :
          /\ heart_rate' = hr
          /\ ticks' = ticks + 1
          /\ notifyLog' = Append(notifyLog, "pending")
          /\ lastCall' = [handle |-> find_hr_measurement_char(services).handle,
                          data |-> create_heart_rate_data(hr), tick |-> ticks + 1]
          /\ taskpc' = "sleep"
          /\ sleeps' = sleeps + 1
    /\ UNCHANGED <<taskCancel, tasksCreated>>
    /\ UNCHANGED lifecycleVars
    /\ UNCHANGED encVars

\* lines 44-66 and 68-73: one iteration from the loop condition to its first
\* suspension point: produce the sample, look the characteristic up and
\*   - found: encode and call server.notify (suspends at line 66);
\*   - not found, or the encoder raised: report, asyncio.sleep(15) (line 73).
\* No await lies between a wake-up and these points, so the step is atomic.
send_heart_rates_tick ==
    /\ taskpc \in {"created", "sleep"}
    /\ taskCancel # "requested"
    /\ ticks < MaxTicks
    /\ IF ~is_running
       THEN /\ taskpc' = "returned"
            /\ UNCHANGED <<ticks, heart_rate, notifyLog, lastCall, sleeps>>
       ELSE \E hr \in randint_80_120 :
            LET char == find_hr_measurement_char(services)
                data == create_heart_rate_data(hr)
            IN  /\ heart_rate' = hr
                /\ ticks' = ticks + 1
                /\ IF char # NoChar /\ data # StructError
                   THEN /\ notifyLog' = Append(notifyLog, "pending")
                        /\ lastCall' = [handle |-> char.handle, data |-> data,
                                        tick |-> ticks + 1]
                        /\ taskpc' = "notify"
                        /\ UNCHANGED sleeps
                   ELSE /\ taskpc' = "sleep"
                        /\ sleeps' = sleeps + 1
                        /\ UNCHANGED <<notifyLog, lastCall>>
    /\ UNCHANGED <<taskCancel, tasksCreated>>
    /\ UNCHANGED lifecycleVars
    /\ UNCHANGED encVars

\* lines 66-67 and 73: notify returned; the task sleeps
notify_returns ==
    /\ taskpc = "notify"
    /\ taskCancel # "requested"
    /\ notifyLog' = SetLast(notifyLog, "ok")
    /\ taskpc' = "sleep"
    /\ sleeps' = sleeps + 1
    /\ UNCHANGED <<taskCancel, tasksCreated, ticks, heart_rate, lastCall>>
    /\ UNCHANGED lifecycleVars
    /\ UNCHANGED encVars

\* a delivery failure answered by submitting the same sample again (used to
\* test the claim that a sample is submitted at most once)
notify_raises_retries ==
    /\ taskpc = "notify"
    /\ taskCancel # "requested"
    /\ Len(notifyLog) <= MaxTicks
    /\ notifyLog' = Append(SetLast(notifyLog, "failed"), "pending")
    /\ UNCHANGED <<taskpc, taskCancel, tasksCreated, ticks, heart_rate, lastCall, sleeps>>
    /\ UNCHANGED lifecycleVars
    /\ UNCHANGED encVars

\* a delivery failure after which the loop continues without the interval
\* wait (used to test the claim about the fixed interval)
notify_raises_continue ==
    /\ taskpc = "notify"
    /\ taskCancel # "requested"
    /\ notifyLog' = SetLast(notifyLog, "failed")
    /\ taskpc' = "created"
    /\ UNCHANGED <<taskCancel, tasksCreated, ticks, heart_rate, lastCall, sleeps>>
    /\ UNCHANGED lifecycleVars
    /\ UNCHANGED encVars

\* a delivery failure that ends the task (used to test the isolation claim)
notify_raises_propagates ==
    /\ taskpc = "notify"
    /\ taskCancel # "requested"
    /\ notifyLog' = SetLast(notifyLog, "failed")
    /\ taskpc' = "returned"
    /\ UNCHANGED <<taskCancel, tasksCreated, ticks, heart_rate, lastCall, sleeps>>
    /\ UNCHANGED lifecycleVars
    /\ UNCHANGED encVars

\* lines 66 and 70-73: notify raised an Exception: caught and printed; the
\* task sleeps
notify_raises ==
    /\ taskpc = "notify"
    /\ taskCancel # "requested"
    /\ notifyLog' = SetLast(notifyLog, "failed")
    /\ taskpc' = "sleep"
    /\ sleeps' = sleeps + 1
    /\ UNCHANGED <<taskCancel, tasksCreated, ticks, heart_rate, lastCall>>
    /\ UNCHANGED lifecycleVars
    /\ UNCHANGED encVars

\* a cancellation that the handler of line 70 catches when it arrives at
\* line 66 (CancelledError as a subclass of Exception)
cancel_delivered_swallowed ==
    /\ taskCancel = "requested"
    /\ taskpc \in {"created", "notify", "sleep"}
    /\ taskCancel' = "delivered"
    /\ IF taskpc = "notify"
       THEN /\ taskpc' = "sleep"
            /\ sleeps' = sleeps + 1
            /\ notifyLog' = SetLast(notifyLog, "cancelled")
       ELSE /\ taskpc' = "cancelled"
            /\ UNCHANGED <<sleeps, notifyLog>>
    /\ UNCHANGED <<tasksCreated, ticks, heart_rate, lastCall>>
    /\ UNCHANGED lifecycleVars
    /\ UNCHANGED encVars

\* line 115 taking effect in the task: CancelledError is raised at the
\* suspension point the task is at (line 66 or 73, or before its first step);
\* it is no Exception, so line 70 does not catch it and the task ends
cancel_delivered ==
    /\ taskCancel = "requested"
    /\ taskpc \in {"created", "notify", "sleep"}
    /\ taskCancel' = "delivered"
    /\ taskpc' = "cancelled"
    /\ notifyLog' = IF taskpc = "notify" THEN SetLast(notifyLog, "cancelled")
                    ELSE notifyLog
    /\ UNCHANGED <<tasksCreated, ticks, heart_rate, lastCall, sleeps>>
    /\ UNCHANGED lifecycleVars
    /\ UNCHANGED encVars

\* --------------------------------------------------- the encoder, directly
encode_call ==
    /\ encOut = <<>>
    /\ encOut' = create_heart_rate_data(encIn)
    /\ UNCHANGED encIn
    /\ UNCHANGED lifecycleVars
    /\ UNCHANGED taskVars

\* ---------------------------------------------------------- specifications
Next ==
    \/ start_server_unavailable
    \/ create_server
    \/ server_start_returns
    \/ server_start_raises
    \/ keep_alive_wake
    \/ interrupt_await_start
    \/ interrupt_keep_alive
    \/ interrupt_await_task
    \/ interrupt_await_stop
    \/ await_task_done
    \/ server_stop_returns
    \/ server_stop_raises
    \/ main_exit
    \/ send_heart_rates_tick
    \/ notify_returns
    \/ notify_raises
    \/ cancel_delivered

Spec == Init /\ [][Next]_vars

NextEncode == encode_call

SpecEncode == InitEncode /\ [][NextEncode]_vars

\* seconds the task has spent in asyncio.sleep(15) calls, begun or completed
interval_waits == sleeps * SLEEP_INTERVAL

\* ------------------------------------------------------------------ claims

CharRegistered == find_hr_measurement_char(services) # NoChar
StartServerDone == mainpc \in {"returned", "raised"}

\* C1: for every bpm in 0..255 the encoder returns exactly two bytes, the
\* flags byte 0x01 followed by bpm, and byte 1 of the result decodes to bpm.
C1_EncodeTwoBytes ==
    (encOut # <<>> /\ encIn \in 0..255) =>
        /\ Len(encOut) = 2
        /\ encOut = <<1, encIn>>
        /\ decode_bpm(encOut) = encIn

C1_Witness == encIn = 255 /\ encOut = <<1, 255>>

\* C2 as stated: every payload the scheduler hands to notify has flags byte
\* 0x06 (contact detected).
C2_FlagsAlways06 ==
    Len(notifyLog) > 0 => (Len(lastCall.data) = 2 /\ lastCall.data[1] = 6)

\* C2 as amended: the encoder takes no contact argument; every payload the
\* scheduler hands to notify in any tick is {0x01, heart_rate}.
C2_FlagsAlways01 ==
    Len(notifyLog) > 0 => lastCall.data = <<1, heart_rate>>

C2_Witness == Len(notifyLog) >= 2 /\ taskpc = "notify" /\ lastCall.data[1] = 1

\* C3: with the Heart Rate Measurement characteristic registered, N ticks
\* issue exactly N notify calls, one per tick, each with a 2-byte payload
\* whose byte 1 lies in 80..120.
C3_OneNotifyPerTick ==
    CharRegistered =>
        /\ Len(notifyLog) = ticks
        /\ ticks > 0 =>
              /\ lastCall.tick = ticks
              /\ Len(lastCall.data) = 2
              /\ decode_bpm(lastCall.data) \in 80..120

C3_Witness == CharRegistered /\ ticks = 3 /\ Len(notifyLog) = 3

\* C4: when the start fails because the transport is unavailable (no server
\* support, or the constructor or start() raised), no scheduler task exists,
\* no tick and no notify call ever happens, and start_server has returned
\* normally after printing the failure.
C4_NoSchedulerAfterFailedStart ==
    startFailure # "none" =>
        /\ tasksCreated = 0
        /\ taskpc = "none"
        /\ ticks = 0
        /\ notifyLog = <<>>
        /\ mainpc = "returned"
        /\ pendingExc = "none"
        /\ diagnostic \in {"not_available", "failed_to_start"}

C4_Witness == startFailure = "start_raised" /\ exitCode # "none"

\* C5: after a startup failure the process never exits with the success
\* outcome: it exits non-zero.
C5_FailedStartExitsNonZero ==
    (startFailure # "none" /\ exitCode # "none") => exitCode = "failure"

\* C6: whenever start_server has finished and a server object was created,
\* the scheduler task is not running and server.stop() has been called.
C6_CleanupOnEveryExit ==
    (StartServerDone /\ serverState # "none") =>
        /\ taskpc \in {"none", "cancelled", "returned"}
        /\ stopCalled

\* C7: a notify call that raises leaves the task alive, waiting out the
\* interval, and the task's next step after that wait is the next tick, which
\* produces a sample and issues its notify call (unless shutdown cancels it).
C7_DeliveryFailureIsolated ==
    [][ /\ ( /\ taskpc = "notify"
             /\ Len(notifyLog') = Len(notifyLog)
             /\ notifyLog'[Len(notifyLog')] = "failed" )
           => taskpc' = "sleep"
        /\ ( /\ taskpc = "sleep"
             /\ Len(notifyLog) > 0
             /\ notifyLog[Len(notifyLog)] = "failed"
             /\ taskpc' # "sleep" )
           => \/ taskpc' = "cancelled"
              \/ /\ taskpc' = "notify"
                 /\ ticks' = ticks + 1
                 /\ notifyLog' = Append(notifyLog, "pending") ]_vars

C7_Witness ==
    \E i \in 1..(Len(notifyLog) - 1) : notifyLog[i] = "failed"

\* C8: once cancellation is requested the task issues no further notify call
\* and produces no further sample, and the delivery of the cancellation, at
\* the notify await or at the interval wait, ends the task.
C8_CancellationStopsTask ==
    [][ /\ taskCancel' = "delivered" => taskpc' = "cancelled"
        /\ taskCancel # "none" =>
              /\ ticks' = ticks
              /\ Len(notifyLog') = Len(notifyLog)
              /\ lastCall' = lastCall ]_vars

C8_Witness ==
    /\ taskCancel = "delivered"
    /\ taskpc = "cancelled"
    /\ Len(notifyLog) > 0
    /\ notifyLog[Len(notifyLog)] = "cancelled"

\* C9: at most one notify call is in flight, it belongs to the current tick
\* and the task is suspended in it; every earlier tick's call has completed;
\* at most one scheduler task is ever created.
C9_OneInFlight ==
    /\ tasksCreated <= 1
    /\ InFlight <= 1
    /\ \A i \in 1..(Len(notifyLog) - 1) : notifyLog[i] # "pending"
    /\ InFlight = 1 => (taskpc = "notify" /\ lastCall.tick = ticks)

C9_Witness ==
    /\ Len(notifyLog) >= 2
    /\ taskpc = "notify"
    /\ notifyLog[Len(notifyLog)] = "pending"


\* C12: every notify call is issued in the step that produces a new sample
\* and carries that sample; no step submits a sample a second time, whatever
\* became of its first submission, so there are never more calls than ticks.
C12_SampleSubmittedOnce ==
    [][ /\ Len(notifyLog') >= Len(notifyLog)
        /\ Len(notifyLog') > Len(notifyLog) =>
              /\ Len(notifyLog') = Len(notifyLog) + 1
              /\ ticks' = ticks + 1
              /\ lastCall'.tick = ticks'
              /\ lastCall'.data = <<1, heart_rate'>>
              /\ InFlight = 0
        /\ Len(notifyLog') <= ticks' ]_vars

C12_Witness ==
    /\ Len(notifyLog) = 3
    /\ notifyLog[1] = "failed"
    /\ notifyLog[2] = "failed"
    /\ lastCall.tick = 3

\* C13: when sample k+1 is produced the task has performed exactly k interval
\* waits of 15 seconds, one after each earlier sample, whether that sample's
\* notify returned, raised or was not attempted.
C13_OneIntervalBetweenSamples ==
    [][ ticks' = ticks + 1 =>
           /\ interval_waits = 15 * ticks
           /\ ticks > 0 => taskpc = "sleep" ]_vars

C13_Witness ==
    /\ ticks = 3
    /\ sleeps = 2
    /\ Len(notifyLog) = 3
    /\ notifyLog[1] = "failed"
    /\ notifyLog[2] = "ok"

\* C14: a notify call is issued only while the server is started and stop()
\* has not been called; stop() is called only once the scheduler task has
\* terminated, with no notify call in flight.
C14_NotifyOnlyWhileOpen ==
    [][ /\ Len(notifyLog') > Len(notifyLog) =>
              (serverState = "started" /\ ~stopCalled /\ ~stopCalled')
        /\ stopCalled' =>
              (taskpc' \in {"cancelled", "returned"} /\ InFlight' = 0) ]_vars

C14_Witness ==
    /\ stopCalled
    /\ serverState = "stopped"
    /\ Len(notifyLog) = 3
    /\ notifyLog[3] = "cancelled"

\* the Heart Rate Measurement characteristic is in the Heart Rate Service
HrCharPresent ==
    \E i \in DOMAIN services :
        /\ services[i].uuid = HEART_RATE_SERVICE_UUID
        /\ \E j \in DOMAIN services[i].characteristics :
              services[i].characteristics[j].uuid = HEART_RATE_MEASUREMENT_UUID

\* C15: in a tick where the characteristic is not in the server's services
\* (no Heart Rate Service, or one without the characteristic) no notify call
\* is issued and the task goes on to the interval wait and the next tick.
C15_NotFoundSkipsNotify ==
    [][ (ticks' = ticks + 1 /\ ~HrCharPresent) =>
           /\ notifyLog' = notifyLog
           /\ notifyLog = <<>>
           /\ lastCall' = NoCall
           /\ taskpc' = "sleep"
           /\ sleeps' = sleeps + 1 ]_vars

C15_Witness ==
    /\ ~HrCharPresent
    /\ services # <<>>
    /\ services[1].uuid = HEART_RATE_SERVICE_UUID
    /\ ticks = 3
    /\ notifyLog = <<>>

\* C16: is_running is always True; the task never returns through its loop
\* condition and ends only by a delivered cancellation; start_server leaves
\* the keep-alive loop only by an interrupt.
C16_IsRunningNeverCleared ==
    /\ is_running = TRUE
    /\ taskpc # "returned"
    /\ taskpc = "cancelled" => taskCancel = "delivered"
    /\ taskCancel # "none" => interrupts >= 1
    /\ (mainpc \in {"await_task", "await_stop"} \/ stopCalled) => interrupts >= 1
    /\ (serverState \in {"started", "stopped"} /\ StartServerDone) => interrupts >= 1

C16_Witness ==
    /\ is_running
    /\ keepAliveIters >= 2
    /\ ticks >= 2
    /\ mainpc = "returned"
    /\ serverState = "stopped"
    /\ taskpc = "cancelled"

====
